---- MODULE Spec2Model ----
(***************************************************************************)
(* Conformance harness of PortsmouthRaceCalc: main_check and               *)
(* check_series_with_file of src/__main__.py.                              *)
(*                                                                         *)
(* Numbers are integers in hundredths of a point (Unit = 1.00), so that    *)
(* the one-decimal rounding of the harness is an operation that can lose   *)
(* information.  Python values that reach a comparison or a mismatch       *)
(* record are tagged records (k = "none" | "num" | "str" | "list").        *)
(***************************************************************************)
EXTENDS Integers, Sequences, FiniteSets, Bags, TLC

(* ------------------------------ bounds --------------------------------- *)
MaxSeries == 2
MaxSkippers == 2
MaxRaces == 2
MaxLen == 2

Unit == 100

(* --------------------------- Python values ----------------------------- *)
None == [k |-> "none", n |-> 0, s |-> "", l |-> <<>>]
Num(v) == [k |-> "num", n |-> v, s |-> "", l |-> <<>>]
Str(x) == [k |-> "str", n |-> 0, s |-> x, l |-> <<>>]
List(q) == [k |-> "list", n |-> 0, s |-> "", l |-> q]
PyInt(c) == Num(c * Unit)

isinstance_str(p) == p.k = "str"

(* The value decimal.Decimal parses a string token of the dump to, for the  *)
(* tokens the model draws from (-1: not a number, as "na", "DNQ", "RC").   *)
ParseDecimal(x) ==
  CASE x = "1" -> 100
    [] x = "1.0" -> 100
    [] x = "2.3" -> 230
    [] x = "2.25" -> 225
    [] x = "2.34" -> 234
    [] x = "2.35" -> 235
    [] OTHER -> -1

(* decimal.Decimal(p): a number is taken exactly, a string is parsed and   *)
(* raises decimal.InvalidOperation when it is not a number.                *)
Decimal(p) ==
  IF p.k = "num" THEN [ok |-> TRUE, v |-> p.n]
  ELSE IF p.k = "str" /\ ParseDecimal(p.s) >= 0
       THEN [ok |-> TRUE, v |-> ParseDecimal(p.s)]
       ELSE [ok |-> FALSE, v |-> 0]

(* round(Decimal, 1): quantize to one decimal place, ROUND_HALF_EVEN.      *)
round1(v) ==
  LET q == v \div 10
      r == v % 10
  IN IF r < 5 THEN q * 10
     ELSE IF r > 5 THEN (q + 1) * 10
     ELSE IF q % 2 = 0 THEN q * 10 ELSE (q + 1) * 10

(* --------------------------- list helpers ------------------------------ *)
RECURSIVE sum(_)
sum(q) == IF q = <<>> THEN 0 ELSE Head(q) + sum(Tail(q))

RECURSIVE insert(_, _)
insert(x, q) ==
  IF q = <<>> THEN <<x>>
  ELSE IF x <= Head(q) THEN <<x>> \o q
       ELSE <<Head(q)>> \o insert(x, Tail(q))

RECURSIVE sorted(_)
sorted(q) == IF q = <<>> THEN <<>> ELSE insert(Head(q), sorted(Tail(q)))

(* ------------------------ results of a check --------------------------- *)
Pass == [t |-> "pass", prm_name |-> "", py_val |-> None, perl_val |-> None]
Mismatch(name, py, perl) ==
  [t |-> "mismatch", prm_name |-> name, py_val |-> py, perl_val |-> perl]
Raise(exc) == [t |-> "raise", prm_name |-> exc, py_val |-> None, perl_val |-> None]

(* ------------------------------ kernel view ---------------------------- *)
(* series.races as seen by one skipper: per race, pts is the skipper's     *)
(* entry of get_skipper_race_points() (None when absent) and rc tells      *)
(* whether the skipper is in rc_skippers().                                *)
Finished(pts) == [pts |-> Num(pts), rc |-> FALSE]
ServedRC == [pts |-> None, rc |-> TRUE]
Absent == [pts |-> None, rc |-> FALSE]

(* ------------------------- the five checks ----------------------------- *)
check_finished_race_count(series, perl) ==
  LET finished_race_count ==
        Cardinality({i \in DOMAIN series.races : series.races[i].pts # None})
  IN IF PyInt(finished_race_count) # perl.finished_races
     THEN Mismatch("Count", PyInt(finished_race_count), perl.finished_races)
     ELSE Pass

FirstDiff(a, b) ==
  LET D == {i \in 1..Len(a) : a[i] # b[i]}
  IN IF D = {} THEN 0 ELSE CHOOSE i \in D : \A j \in D : i <= j

\* Faulty variant of compare_points: the two lists are zipped as they come.
compare_points_unsorted(points, series_points_perl) ==
  LET kernel == [i \in 1..Len(points.l) |-> points.l[i].n]
      rounded == [i \in 1..Len(series_points_perl) |->
                    round1(Decimal(series_points_perl[i]).v)]
      d == FirstDiff(kernel, rounded)
  IN IF \E i \in 1..Len(series_points_perl) : isinstance_str(series_points_perl[i])
     THEN Mismatch("Number/String", points, List(series_points_perl))
     ELSE IF Len(kernel) # Len(rounded)
     THEN Mismatch("Point Count", PyInt(Len(kernel)), PyInt(Len(rounded)))
     ELSE IF d # 0
     THEN Mismatch("Point[" \o ToString(d - 1) \o "]", Num(kernel[d]), Num(rounded[d]))
     ELSE Pass

\* The branch of check_series_points taken when the skipper finished the
\* series: points is series_points.points_scored.
compare_points(points, series_points_perl) ==
  LET series_points == points.l
      kernel == [i \in 1..Len(series_points) |-> series_points[i].n]
  IN IF \E i \in 1..Len(series_points_perl) : isinstance_str(series_points_perl[i])
     THEN Mismatch("Number/String", points, List(series_points_perl))
     ELSE IF \E i \in 1..Len(series_points_perl) : ~Decimal(series_points_perl[i]).ok
     THEN Raise("TypeError")
     ELSE LET rounded == [i \in 1..Len(series_points_perl) |->
                            round1(Decimal(series_points_perl[i]).v)]
              a == sorted(kernel)
              b == sorted(rounded)
              d == FirstDiff(a, b)
          IN IF Len(kernel) # Len(rounded)
             THEN Mismatch("Point Count", PyInt(Len(kernel)), PyInt(Len(rounded)))
             ELSE IF d # 0
             THEN Mismatch("Point[" \o ToString(d - 1) \o "]", Num(a[d]), Num(b[d]))
             ELSE IF sum(kernel) # sum(rounded)
             THEN Mismatch("Sum Count", PyInt(Len(kernel)), PyInt(Len(rounded)))
             ELSE Pass

\* Faulty variant of check_sentinel: only the sentinel "DNQ" is accepted.
check_sentinel_dnq_only(series_points_perl) ==
  IF Len(series_points_perl) # 1
  THEN Mismatch("Array Length", PyInt(1), List(series_points_perl))
  ELSE IF series_points_perl[1] # Str("DNQ")
  THEN Mismatch("Point String", Str("na/DNQ"), series_points_perl[1])
  ELSE Pass

\* The branches of check_series_points taken when skipper_points_list gave
\* no numeric result (a falsy value: DNQ or "na").
check_sentinel(series_points_perl) ==
  IF Len(series_points_perl) # 1
  THEN Mismatch("Array Length", PyInt(1), List(series_points_perl))
  ELSE IF series_points_perl[1] \notin {Str("na"), Str("DNQ")}
  THEN Mismatch("Point String", Str("na/DNQ"), series_points_perl[1])
  ELSE Pass

check_series_points(series, perl) ==
  IF series.points # None
  THEN compare_points(series.points, perl.low_n_list)
  ELSE check_sentinel(perl.low_n_list)

(* The kernel's result for the race of internal index i (0-based).         *)
race_pts(series, i) ==
  LET r == series.races[i + 1]
  IN IF r.pts # None THEN r.pts
     ELSE IF r.rc THEN Str("RC")
     ELSE None

\* Faulty variant of race_pts_perl: the dump is read under the 0-based index.
race_pts_perl_zero_based(perl, i) ==
  IF i \in DOMAIN perl.race THEN perl.race[i] ELSE None

(* The reference entry of the dump for the race of internal index i.       *)
race_pts_perl(perl, i) ==
  IF i + 1 \in DOMAIN perl.race THEN perl.race[i + 1] ELSE None

check_race_results(series, perl) ==
  LET D == {i \in 0..(Len(series.races) - 1) :
              /\ ~(race_pts(series, i) = None /\ race_pts_perl(perl, i) = None)
              /\ race_pts(series, i) # race_pts_perl(perl, i)}
  IN IF D = {} THEN Pass
     ELSE LET i == CHOOSE x \in D : \A y \in D : x <= y
          IN Mismatch("Race[" \o ToString(i + 1) \o "]",
                      race_pts(series, i), race_pts_perl(perl, i))

check_rc_race_count(series, perl) ==
  LET rc_count == Cardinality({i \in DOMAIN series.races : series.races[i].rc})
  IN IF PyInt(rc_count) # perl.rced_races
     THEN Mismatch("RC Count", PyInt(rc_count), perl.rced_races)
     ELSE Pass

check_rc_points(series, perl) ==
  LET rc_pts == series.rc_pts
      rc_pts_perl == perl.rc_points
  IN IF rc_pts = None
     THEN IF rc_pts_perl # Str("na")
          THEN Mismatch("RC Points", Str("na"), rc_pts_perl)
          ELSE Pass
     ELSE IF ~Decimal(rc_pts_perl).ok
     THEN Raise("InvalidOperation")
     ELSE IF rc_pts # Num(round1(Decimal(rc_pts_perl).v))
     THEN Mismatch("RC Points", rc_pts, Num(round1(Decimal(rc_pts_perl).v)))
     ELSE Pass

check_functions ==
  << "check_finished_race_count", "check_series_points", "check_race_results",
     "check_rc_race_count", "check_rc_points" >>

(* res = fcn(series, perl_results) for the fcn-th entry of check_functions *)
call(fcn, series, perl) ==
  CASE fcn = 1 -> check_finished_race_count(series, perl)
    [] fcn = 2 -> check_series_points(series, perl)
    [] fcn = 3 -> check_race_results(series, perl)
    [] fcn = 4 -> check_rc_race_count(series, perl)
    [] fcn = 5 -> check_rc_points(series, perl)

(* ------------------------------- state --------------------------------- *)
VARIABLES
  pc,              \* position of the run (main_check and check_series_with_file)
  n_series,        \* len(database.series)
  si,              \* 1-based position of the series of the current iteration
  overall_success, \* main_check: overall_success
  success,         \* main_check: success
  returncode,      \* proc.returncode of the current series (-1: not run)
  exit_code,       \* exit status of the process (-1: still running)
  all_pass,        \* "All Pass!" was printed
  uncaught,        \* name of the exception that ended the run ("" if none)
  n_skippers,      \* len(series.get_all_skippers()) of the current series
  ki,              \* 1-based position of the skipper of the current iteration
  fi,              \* 1-based position of fcn in check_functions
  error_outputs,   \* check_series_with_file: error_outputs
  evaluated,       \* the calls res = fcn(...) made for the current skipper
  visited,         \* skippers of the current series whose checks were run
  mismatched,      \* skippers of the current series for which a check returned a mismatch
  hist,            \* per series: return code, state of the dump, value returned by the check, lines printed
  f_fcn,           \* a single call of a check: position of the function
  f_series,        \* a single call of a check: the kernel's view
  f_perl,          \* a single call of a check: the reference record
  f_res            \* a single call of a check: its result (t = "none" before the call)

hvars == << pc, n_series, si, overall_success, success, returncode, exit_code,
            all_pass, uncaught, n_skippers, ki, fi, error_outputs,
            evaluated, visited, mismatched, hist >>
fvars == << f_fcn, f_series, f_perl, f_res >>
vars == << hvars, fvars >>

(* ------------------------- inputs of the checks ------------------------ *)
SeqsUpTo(S, n) == UNION {[1..m -> S] : m \in 0..n}

NoRaces == [races |-> <<>>, points |-> None, rc_pts |-> None]
BasePerl ==
  [finished_races |-> PyInt(0), low_n_list |-> <<Str("na")>>, race |-> <<>>,
   rced_races |-> PyInt(0), rc_points |-> Str("na")]
NotCalled == [t |-> "none", prm_name |-> "", py_val |-> None, perl_val |-> None]

\* Kernel side: one-decimal points, RC duty exclusive with a numeric result.
RaceViews == {Absent, ServedRC, Finished(100), Finished(250)}
KernelPoints == {100, 200, 220}
KernelLists == {List([i \in DOMAIN q |-> Num(q[i])]) : q \in SeqsUpTo(KernelPoints, MaxLen)}
KernelRC == {None, Num(100), Num(220), Num(230), Num(240)}

\* Reference side: the values a dump can hold under each key.
PerlCounts == {PyInt(c) : c \in 0..MaxRaces} \cup {Str("1")}
PerlPoints == {Num(100), Num(200), Num(204), Num(225), Str("na"), Str("DNQ"), Str("1.0")}
PerlRaceVals == {Num(100), Num(250), Str("RC"), Str("1.0")}
PerlRaceKeys == 0..(MaxRaces + 1)
PerlRaceMaps == UNION {[K -> PerlRaceVals] : K \in SUBSET PerlRaceKeys}
PerlRC == {Str("na"), Str("1.0"), Str("2.3"), Str("2.25"), Str("2.34"), Str("2.35"),
           Num(230)}

\* The (series, perl) pairs a call of the fcn-th check is tried on: the
\* fields the check does not read are left at their defaults.
Inputs(fcn) ==
  CASE fcn = 1 ->
         {<<[NoRaces EXCEPT !.races = r], [BasePerl EXCEPT !.finished_races = c]>> :
            r \in SeqsUpTo(RaceViews, MaxRaces), c \in PerlCounts}
    [] fcn = 2 ->
         {<<[NoRaces EXCEPT !.points = p], [BasePerl EXCEPT !.low_n_list = q]>> :
            p \in KernelLists \cup {None}, q \in SeqsUpTo(PerlPoints, MaxLen)}
    [] fcn = 3 ->
         {<<[NoRaces EXCEPT !.races = r], [BasePerl EXCEPT !.race = m]>> :
            r \in SeqsUpTo(RaceViews, MaxRaces), m \in PerlRaceMaps}
    [] fcn = 4 ->
         {<<[NoRaces EXCEPT !.races = r], [BasePerl EXCEPT !.rced_races = c]>> :
            r \in SeqsUpTo(RaceViews, MaxRaces), c \in PerlCounts}
    [] fcn = 5 ->
         {<<[NoRaces EXCEPT !.rc_pts = p], [BasePerl EXCEPT !.rc_points = q]>> :
            p \in KernelRC, q \in PerlRC}

(* -------------------- a single call of one check ----------------------- *)
HarnessIdle ==
  /\ pc = "idle" /\ n_series = 0 /\ si = 0
  /\ overall_success = TRUE /\ success = FALSE
  /\ returncode = -1 /\ exit_code = -1 /\ all_pass = FALSE /\ uncaught = ""
  /\ n_skippers = 0 /\ ki = 0 /\ fi = 0
  /\ error_outputs = <<>> /\ evaluated = <<>>
  /\ visited = {} /\ mismatched = {}
  /\ hist = <<>>

InitFn ==
  /\ HarnessIdle
  /\ f_fcn \in DOMAIN check_functions
  /\ \E in \in Inputs(f_fcn) : f_series = in[1] /\ f_perl = in[2]
  /\ f_res = NotCalled

Apply(fcn) ==
  /\ f_fcn = fcn
  /\ f_res = NotCalled
  /\ f_res' = call(fcn, f_series, f_perl)
  /\ UNCHANGED << f_fcn, f_series, f_perl, hvars >>

NextFn == \E fcn \in DOMAIN check_functions : Apply(fcn)

SpecFn == InitFn /\ [][NextFn]_vars

(* ------------------------------ main_check ----------------------------- *)
NotRun == [returncode |-> -1, dump |-> "none", ret |-> "none"]

\* The data one call of the fcn-th check reads while a series is validated:
\* for each check, kernel values and reference values that agree and that
\* differ.
HKernelRaces == {<<>>, <<Finished(100)>>, <<ServedRC, Finished(100)>>}
HInputs(fcn) ==
  CASE fcn = 1 ->
         {<<[NoRaces EXCEPT !.races = r], [BasePerl EXCEPT !.finished_races = PyInt(c)]>> :
            r \in HKernelRaces, c \in {0, 1}}
    [] fcn = 2 ->
         {<<[NoRaces EXCEPT !.points = p], [BasePerl EXCEPT !.low_n_list = q]>> :
            p \in {None, List(<<Num(100)>>)},
            q \in {<<Str("na")>>, <<Num(100)>>, <<Num(200)>>}}
    [] fcn = 3 ->
         {<<[NoRaces EXCEPT !.races = r], [BasePerl EXCEPT !.race = m]>> :
            r \in HKernelRaces, m \in {<<>>, <<Num(100)>>, <<Str("RC"), Num(100)>>}}
    [] fcn = 4 ->
         {<<[NoRaces EXCEPT !.races = r], [BasePerl EXCEPT !.rced_races = PyInt(c)]>> :
            r \in HKernelRaces, c \in {0, 1}}
    [] fcn = 5 ->
         {<<[NoRaces EXCEPT !.rc_pts = p], [BasePerl EXCEPT !.rc_points = q]>> :
            p \in {None, Num(230)}, q \in {Str("na"), Str("2.3"), Str("1.0")}}

FnIdle == f_fcn = 0 /\ f_series = NoRaces /\ f_perl = BasePerl /\ f_res = NotCalled

Init ==
  /\ FnIdle
  /\ pc = "for_series"
  /\ n_series \in 0..MaxSeries
  /\ si = 0
  /\ overall_success = TRUE
  /\ success = FALSE
  /\ returncode = -1
  /\ exit_code = -1
  /\ all_pass = FALSE
  /\ uncaught = ""
  /\ n_skippers = 0 /\ ki = 0 /\ fi = 0
  /\ error_outputs = <<>> /\ evaluated = <<>>
  /\ visited = {} /\ mismatched = {}
  /\ hist = [s \in 1..n_series |-> NotRun]

\* An exception nothing catches ends the interpreter with status 1.
Uncaught(exc) ==
  /\ pc' = "done"
  /\ exit_code' = 1
  /\ uncaught' = exc

\* Lines 191-211: next series, input files written, reference scorer run.
RunReference ==
  /\ pc = "for_series"
  /\ si < n_series
  /\ si' = si + 1
  /\ success' = FALSE
  /\ \E rc \in {0, 1} :
       /\ returncode' = rc
       /\ hist' = [hist EXCEPT ![si + 1].returncode = rc]
  /\ pc' = "communicated"
  /\ UNCHANGED << n_series, overall_success, exit_code, all_pass, uncaught,
                  n_skippers, ki, fi, error_outputs, evaluated, visited, mismatched,
                  fvars >>

\* Lines 213-216: the reference scorer exited non-zero.
ProcessError ==
  /\ pc = "communicated"
  /\ returncode # 0
  /\ pc' = "end_series"
  /\ UNCHANGED << n_series, si, overall_success, success, returncode, exit_code,
                  all_pass, uncaught, n_skippers, ki, fi, error_outputs, evaluated,
                  visited, mismatched, hist, fvars >>

\* Lines 218-222: dumper.yaml is opened and parsed and check_series_with_file
\* is entered (lines 350-353).
LoadDump ==
  /\ pc = "communicated"
  /\ returncode = 0
  /\ \E d \in {"ok", "missing", "unparsable"} :
       /\ hist' = [hist EXCEPT ![si].dump = d]
       /\ IF d = "ok"
          THEN /\ pc' = "for_skip"
               /\ n_skippers' \in 0..MaxSkippers
               /\ ki' = 0
               /\ error_outputs' = <<>>
               /\ evaluated' = <<>>
               /\ visited' = {}
               /\ mismatched' = {}
               /\ UNCHANGED << exit_code, uncaught >>
          ELSE /\ Uncaught(IF d = "missing" THEN "FileNotFoundError" ELSE "YAMLError")
               /\ UNCHANGED << n_skippers, ki, error_outputs, evaluated, visited,
                               mismatched >>
  /\ UNCHANGED << n_series, si, overall_success, success, returncode, all_pass, fi,
                  fvars >>

\* Lines 353-355: next skipper, its record looked up in the dump.
NextSkipper ==
  /\ pc = "for_skip"
  /\ ki < n_skippers
  /\ \E present \in BOOLEAN :
       IF present
       THEN /\ ki' = ki + 1
            /\ fi' = 1
            /\ evaluated' = <<>>
            /\ visited' = visited \cup {ki + 1}
            /\ pc' = "for_fcn"
            /\ UNCHANGED << exit_code, uncaught, hist >>
       ELSE /\ Uncaught("KeyError")
            /\ hist' = [hist EXCEPT ![si].dump = "no_record"]
            /\ UNCHANGED << ki, fi, evaluated, visited >>
  /\ UNCHANGED << n_series, si, overall_success, success, returncode, all_pass,
                  n_skippers, error_outputs, mismatched, fvars >>

\* Faulty variant of CallCheck: no break after a mismatch.
CallCheck_no_break ==
  /\ pc = "for_fcn"
  /\ \E in \in HInputs(fi) :
       LET res == call(fi, in[1], in[2])
       IN /\ evaluated' = Append(evaluated, [fcn |-> fi, t |-> res.t])
          /\ IF res.t = "raise"
             THEN /\ Uncaught(res.prm_name)
                  /\ UNCHANGED << fi, error_outputs, mismatched >>
             ELSE /\ error_outputs' =
                       IF res.t = "mismatch"
                       THEN Append(error_outputs,
                                   [skip |-> ki, prm_name |-> res.prm_name,
                                    py_val |-> res.py_val, perl_val |-> res.perl_val])
                       ELSE error_outputs
                  /\ mismatched' = IF res.t = "mismatch" THEN mismatched \cup {ki}
                                   ELSE mismatched
                  /\ IF fi < Len(check_functions)
                     THEN fi' = fi + 1 /\ pc' = "for_fcn"
                     ELSE fi' = fi /\ pc' = "for_skip"
                  /\ UNCHANGED << exit_code, uncaught >>
  /\ UNCHANGED << n_series, si, overall_success, success, returncode, all_pass,
                  n_skippers, ki, visited, hist, fvars >>

\* Faulty variant of CallCheck: a mismatch ends the loop over the skippers too.
CallCheck_break_all ==
  /\ pc = "for_fcn"
  /\ \E in \in HInputs(fi) :
       LET res == call(fi, in[1], in[2])
       IN /\ evaluated' = Append(evaluated, [fcn |-> fi, t |-> res.t])
          /\ CASE res.t = "mismatch" ->
                    /\ error_outputs' =
                         Append(error_outputs,
                                [skip |-> ki, prm_name |-> res.prm_name,
                                 py_val |-> res.py_val, perl_val |-> res.perl_val])
                    /\ mismatched' = mismatched \cup {ki}
                    /\ pc' = "for_skip"
                    /\ ki' = n_skippers
                    /\ UNCHANGED << fi, exit_code, uncaught >>
               [] res.t = "raise" ->
                    /\ Uncaught(res.prm_name)
                    /\ UNCHANGED << fi, ki, error_outputs, mismatched >>
               [] res.t = "pass" ->
                    /\ IF fi < Len(check_functions)
                       THEN fi' = fi + 1 /\ pc' = "for_fcn"
                       ELSE fi' = fi /\ pc' = "for_skip"
                    /\ UNCHANGED << ki, error_outputs, mismatched, exit_code, uncaught >>
  /\ UNCHANGED << n_series, si, overall_success, success, returncode, all_pass,
                  n_skippers, visited, hist, fvars >>

\* Lines 358-365: res = fcn(series, perl_results); a mismatch is appended to
\* error_outputs and ends the checks of this skipper.
CallCheck ==
  /\ pc = "for_fcn"
  /\ \E in \in HInputs(fi) :
       LET res == call(fi, in[1], in[2])
       IN /\ evaluated' = Append(evaluated, [fcn |-> fi, t |-> res.t])
          /\ CASE res.t = "mismatch" ->
                    /\ error_outputs' =
                         Append(error_outputs,
                                [skip |-> ki, prm_name |-> res.prm_name,
                                 py_val |-> res.py_val, perl_val |-> res.perl_val])
                    /\ mismatched' = mismatched \cup {ki}
                    /\ pc' = "for_skip"
                    /\ UNCHANGED << fi, exit_code, uncaught >>
               [] res.t = "raise" ->
                    /\ Uncaught(res.prm_name)
                    /\ UNCHANGED << fi, error_outputs, mismatched >>
               [] res.t = "pass" ->
                    /\ IF fi < Len(check_functions)
                       THEN fi' = fi + 1 /\ pc' = "for_fcn"
                       ELSE fi' = fi /\ pc' = "for_skip"
                    /\ UNCHANGED << error_outputs, mismatched, exit_code, uncaught >>
  /\ UNCHANGED << n_series, si, overall_success, success, returncode, all_pass,
                  n_skippers, ki, visited, hist, fvars >>

\* Lines 367-374 and 222-225: the mismatch lines are printed and
\* check_series_with_file returns, which ends the life of its locals;
\* success takes the returned value.
ReturnCheck ==
  /\ pc = "for_skip"
  /\ ki = n_skippers
  /\ success' = (error_outputs = <<>>)
  /\ hist' = [hist EXCEPT ![si].ret = IF error_outputs = <<>> THEN "True" ELSE "False"]
  /\ error_outputs' = <<>>
  /\ evaluated' = <<>>
  /\ visited' = {}
  /\ mismatched' = {}
  /\ n_skippers' = 0 /\ ki' = 0 /\ fi' = 0
  /\ pc' = "end_series"
  /\ UNCHANGED << n_series, si, overall_success, returncode, exit_code, all_pass,
                  uncaught, fvars >>

\* Faulty variant of EndSeries: the flag follows the last series.
EndSeries_last_wins ==
  /\ pc = "end_series"
  /\ overall_success' = success
  /\ pc' = "for_series"
  /\ UNCHANGED << n_series, si, success, returncode, exit_code, all_pass, uncaught,
                  n_skippers, ki, fi, error_outputs, evaluated, visited, mismatched,
                  hist, fvars >>

\* Lines 227-228.
EndSeries ==
  /\ pc = "end_series"
  /\ overall_success' = IF ~success THEN FALSE ELSE overall_success
  /\ pc' = "for_series"
  /\ UNCHANGED << n_series, si, success, returncode, exit_code, all_pass, uncaught,
                  n_skippers, ki, fi, error_outputs, evaluated, visited, mismatched,
                  hist, fvars >>

\* Lines 230-233: after the last series.
Finish ==
  /\ pc = "for_series"
  /\ si = n_series
  /\ IF overall_success
     THEN all_pass' = TRUE /\ exit_code' = 0
     ELSE all_pass' = FALSE /\ exit_code' = 1
  /\ pc' = "done"
  /\ UNCHANGED << n_series, si, overall_success, success, returncode, uncaught,
                  n_skippers, ki, fi, error_outputs, evaluated, visited, mismatched,
                  hist, fvars >>

Next ==
  \/ RunReference
  \/ ProcessError
  \/ LoadDump
  \/ NextSkipper
  \/ CallCheck
  \/ ReturnCheck
  \/ EndSeries
  \/ Finish

Spec == Init /\ [][Next]_vars

(* ----------------------- properties of a run ------------------------- *)
\* A series passes: its reference run returned 0 and the check returned True.
Passed(s) == hist[s].returncode = 0 /\ hist[s].ret = "True"

\* C1: the run ends in success (exit status 0, "All Pass!" printed, no
\* exception) iff every series passed, and with a non-zero status otherwise.
C1_SuccessIffAllPass ==
  pc = "done" =>
    /\ (exit_code = 0) <=> (\A s \in 1..n_series : Passed(s))
    /\ exit_code # 0 => exit_code > 0
    /\ all_pass <=> (exit_code = 0)
    /\ exit_code = 0 => uncaught = ""

C1_Witness ==
  /\ pc = "done"
  /\ n_series = 2
  /\ Passed(2)
  /\ hist[1].returncode = 0 /\ hist[1].ret = "False"
  /\ exit_code = 1
  /\ uncaught = ""

\* The reference run of series s failed: non-zero exit, or a dump that is
\* missing, unparsable or without the record of a skipper.
ReferenceFailed(s) ==
  \/ hist[s].returncode > 0
  \/ hist[s].dump \in {"missing", "unparsable", "no_record"}

\* C2 (as claimed): a failed reference run never aborts the validation:
\* at the end every series has been run, the failed one is not passing and
\* no exception ended the run.
C2_ReferenceFailureNeverAborts ==
  (pc = "done" /\ \E s \in 1..n_series : ReferenceFailed(s)) =>
    /\ uncaught = ""
    /\ \A s \in 1..n_series : hist[s].returncode # -1
    /\ \A s \in 1..n_series : ReferenceFailed(s) => ~Passed(s)
    /\ exit_code = 1

\* The mismatch fields each check can report.
FieldsOf(fcn) ==
  CASE fcn = 1 -> {"Count"}
    [] fcn = 2 -> {"Number/String", "Point Count", "Sum Count", "Array Length",
                   "Point String"}
                  \cup {"Point[" \o ToString(i) \o "]" : i \in 0..MaxLen}
    [] fcn = 3 -> {"Race[" \o ToString(i) \o "]" : i \in 1..(MaxRaces + 1)}
    [] fcn = 4 -> {"RC Count"}
    [] fcn = 5 -> {"RC Points"}

RecordsOf(skip) == {i \in DOMAIN error_outputs : error_outputs[i].skip = skip}

\* C3: for every skipper the checks are called in the order of
\* check_functions and the calls stop at the first mismatch: every call
\* before the last one passed, a skipper has at most one mismatch record,
\* and it has one exactly when its last call reported a mismatch, under a
\* field of that check.
C3_FirstMismatchOnly ==
  /\ \A k \in 1..MaxSkippers + 1 : Cardinality(RecordsOf(k)) <= 1
  /\ \A j \in DOMAIN evaluated : evaluated[j].fcn = j
  /\ \A j \in 1..(Len(evaluated) - 1) : evaluated[j].t = "pass"
  /\ (pc \in {"for_fcn", "for_skip"} /\ ki >= 1) =>
       LET n == Len(evaluated)
       IN /\ (RecordsOf(ki) # {}) <=> (n >= 1 /\ evaluated[n].t = "mismatch")
          /\ \A i \in RecordsOf(ki) : error_outputs[i].prm_name \in FieldsOf(evaluated[n].fcn)
          /\ (n >= 1 /\ evaluated[n].t = "mismatch") => pc = "for_skip"

C3_Witness ==
  /\ pc = "for_skip"
  /\ ki = 1
  /\ Len(evaluated) = 3
  /\ evaluated[3].t = "mismatch"
  /\ Len(error_outputs) = 1
  /\ error_outputs[1].prm_name = "Race[1]"

\* C4: check_series_with_file returns True iff no skipper of the series had
\* a mismatch, and it returns only after the checks of every skipper were
\* run, mismatches of earlier skippers notwithstanding.
C4_PassIffNoMismatch ==
  [][(pc = "for_skip" /\ pc' = "end_series") =>
       /\ success' <=> (mismatched = {})
       /\ hist'[si].ret = (IF mismatched = {} THEN "True" ELSE "False")
       /\ visited = 1..n_skippers]_vars

C4_Witness ==
  /\ pc = "for_skip"
  /\ n_skippers = 2
  /\ ki = 2
  /\ mismatched = {1}
  /\ visited = {1, 2}
  /\ Len(evaluated) = Len(check_functions)

\* C6 (as claimed): the process exits only after every series of the
\* database has been run, with every mismatch that was collected printed.
C6_ExitAfterAllSeries ==
  exit_code # -1 =>
    /\ \A s \in 1..n_series : hist[s].returncode # -1
    /\ error_outputs = <<>>

(* ---------------- properties of a single call of a check --------------- *)
Called(fcn) == f_fcn = fcn /\ f_res # NotCalled

\* The reference record follows the dump format: rc_points is a numeric
\* string or "na", low_n_list holds numbers only or is a single "na"/"DNQ".
FormatOK(perl) ==
  /\ perl.rc_points.k = "str"
  /\ (perl.rc_points.s = "na" \/ ParseDecimal(perl.rc_points.s) >= 0)
  /\ \/ \A i \in DOMAIN perl.low_n_list : perl.low_n_list[i].k = "num"
     \/ perl.low_n_list \in {<<Str("na")>>, <<Str("DNQ")>>}

\* C5 (as claimed): on a reference record that follows the dump format,
\* every check returns pass or a mismatch record and never raises.
C5_NoCheckRaises ==
  (f_res # NotCalled /\ FormatOK(f_perl)) => f_res.t \in {"pass", "mismatch"}

\* Internal indices of the races where the kernel holds a number and the
\* reference entry is a string, all earlier races agreeing.
StringForNumberRaces ==
  {i \in 0..(Len(f_series.races) - 1) :
     /\ race_pts(f_series, i).k = "num"
     /\ race_pts_perl(f_perl, i).k = "str"
     /\ \A j \in 0..(i - 1) : race_pts(f_series, j) = race_pts_perl(f_perl, j)}

\* The fields under which a difference between two values is reported.
ValueMismatchFields ==
  UNION {FieldsOf(fcn) : fcn \in DOMAIN check_functions} \ {"Number/String"}

\* C7 (as claimed): a string-typed reference entry where the kernel holds a
\* number, in low_n_list or in a per-race value, is reported with both raw
\* values under a class of its own and under no value-mismatch field.
C7_StringEntryOwnClass ==
  /\ (Called(2) /\ f_series.points # None
        /\ \E i \in DOMAIN f_perl.low_n_list : f_perl.low_n_list[i].k = "str")
       => f_res = Mismatch("Number/String", f_series.points, List(f_perl.low_n_list))
  /\ (Called(3) /\ StringForNumberRaces # {})
       => /\ f_res.t = "mismatch"
          /\ f_res.prm_name \notin ValueMismatchFields

\* C8: the kernel's result of race i and the reference entry under key i+1.
C8_Kernel(i) ==
  LET r == f_series.races[i + 1]
  IN IF r.pts.k = "num" THEN r.pts ELSE IF r.rc THEN Str("RC") ELSE None
C8_Ref(key) == IF key \in DOMAIN f_perl.race THEN f_perl.race[key] ELSE None
C8_Differ == {i \in 0..(Len(f_series.races) - 1) : C8_Kernel(i) # C8_Ref(i + 1)}
C8_OwnKeys ==
  [key \in (DOMAIN f_perl.race) \cap (1..Len(f_series.races)) |-> f_perl.race[key]]

\* C8: check_race_results compares race i of series.races with the entry of
\* key i+1 only: it passes iff all of them agree (absent = absent), reports
\* the first difference as Race[i+1] with both values, and the entries under
\* any other key do not change the result.
C8_RaceIndexOffset ==
  Called(3) =>
    /\ (f_res = Pass) <=> (C8_Differ = {})
    /\ C8_Differ # {} =>
         LET i == CHOOSE x \in C8_Differ : \A y \in C8_Differ : x <= y
         IN f_res = Mismatch("Race[" \o ToString(i + 1) \o "]", C8_Kernel(i), C8_Ref(i + 1))
    /\ check_race_results(f_series, [f_perl EXCEPT !.race = C8_OwnKeys]) = f_res

C8_Witness ==
  /\ Called(3)
  /\ Len(f_series.races) = 2
  /\ f_series.races[1] = Finished(100) /\ f_series.races[2] = Finished(250)
  /\ DOMAIN f_perl.race = {0, 1, 2}
  /\ f_perl.race[0] = Num(250) /\ f_perl.race[1] = Num(100) /\ f_perl.race[2] = Num(100)
  /\ f_res = Mismatch("Race[2]", Num(250), Num(100))

\* C9: the multiset of a list of numbers.
CountOf(q) == [v \in {q[i] : i \in DOMAIN q} |-> Cardinality({i \in DOMAIN q : q[i] = v})]
Orders(n) == {f \in [1..n -> 1..n] : \A i, j \in 1..n : f[i] = f[j] => i = j}
C9_Kernel == [i \in DOMAIN f_series.points.l |-> f_series.points.l[i].n]
C9_Ref == [i \in DOMAIN f_perl.low_n_list |-> round1(f_perl.low_n_list[i].n)]
C9_Numeric ==
  /\ Called(2)
  /\ f_series.points # None
  /\ \A i \in DOMAIN f_perl.low_n_list : f_perl.low_n_list[i].k = "num"

\* C9: with a numeric low-N list on both sides, check_series_points passes
\* iff the kernel's list and the reference list at one-decimal precision are
\* equal as multisets; the result is the same for every order of either
\* list; a length difference gives Point Count, otherwise the first
\* differing position of the sorted lists gives Point[i]; Sum Count is
\* never reported.
C9_MultisetEquality ==
  C9_Numeric =>
    /\ (f_res = Pass) <=> (CountOf(C9_Kernel) = CountOf(C9_Ref))
    /\ Len(C9_Kernel) # Len(C9_Ref) =>
         f_res = Mismatch("Point Count", PyInt(Len(C9_Kernel)), PyInt(Len(C9_Ref)))
    /\ (Len(C9_Kernel) = Len(C9_Ref) /\ f_res # Pass) =>
         \E i \in 1..Len(C9_Kernel) :
           /\ \A j \in 1..(i - 1) : sorted(C9_Kernel)[j] = sorted(C9_Ref)[j]
           /\ sorted(C9_Kernel)[i] # sorted(C9_Ref)[i]
           /\ f_res = Mismatch("Point[" \o ToString(i - 1) \o "]",
                               Num(sorted(C9_Kernel)[i]), Num(sorted(C9_Ref)[i]))
    /\ f_res.prm_name # "Sum Count"
    /\ \A f \in Orders(Len(C9_Kernel)), g \in Orders(Len(C9_Ref)) :
         check_series_points(
           [f_series EXCEPT !.points = List([i \in DOMAIN f |-> f_series.points.l[f[i]]])],
           [f_perl EXCEPT !.low_n_list = [i \in DOMAIN g |-> f_perl.low_n_list[g[i]]]])
         = f_res

C9_Witness ==
  /\ C9_Numeric
  /\ f_series.points = List(<<Num(200), Num(100)>>)
  /\ f_perl.low_n_list = <<Num(100), Num(204)>>
  /\ f_res = Pass

\* C10: without a numeric result of skipper_points_list, check_series_points
\* passes iff the reference low_n_list is exactly ["na"] or ["DNQ"]; any
\* other length gives Array Length and any other sole element gives
\* Point String.
C10_SentinelOnly ==
  (Called(2) /\ f_series.points = None) =>
    LET q == f_perl.low_n_list
    IN /\ (f_res = Pass) <=> (q = <<Str("na")>> \/ q = <<Str("DNQ")>>)
       /\ Len(q) # 1 => f_res = Mismatch("Array Length", PyInt(1), List(q))
       /\ (Len(q) = 1 /\ q[1] # Str("na") /\ q[1] # Str("DNQ"))
            => f_res = Mismatch("Point String", Str("na/DNQ"), q[1])

C10_Witness ==
  /\ Called(2)
  /\ f_series.points = None
  /\ f_perl.low_n_list = <<Str("na")>>
  /\ f_res = Pass

====
